---- MODULE Spec2Model ----
(***************************************************************************)
(* Model of code_scheduling/fast_mod.cpp: the argument grid registered by  *)
(* custom_args and the five modulo kernels baseMod, unrollMod, fastMod,    *)
(* fastModHint and fastModHintUnroll.                                      *)
(*                                                                         *)
(* Two specifications share the variables:                                 *)
(*   SpecArgs  BENCHMARK(k)->Apply(custom_args) for the five benchmarks,   *)
(*             stepped through the two loops of custom_args;               *)
(*   Spec      the body of the benchmark functions: s.range(0), s.range(1) *)
(*             and the draw of dist(rng) are taken from bounded sets, and  *)
(*             the five functions run one after the other, in the order    *)
(*             they are registered, on the same draw, so that their        *)
(*             outputs can be compared.                                    *)
(* Vectors are functions over 0..N-1, as the code indexes them.            *)
(***************************************************************************)
EXTENDS Integers, Sequences, FiniteSets

VARIABLES
  kernel,     \* the benchmark function that is running
  N,          \* int N = s.range(0)
  ceil,       \* int ceil = s.range(1)
  input,      \* std::vector<int> input
  output,     \* std::vector<int> output
  i,          \* the index of the for loop of the kernel
  pc,         \* "idle", "keep" (at s.KeepRunning()), "loop", "ret", "fault"
  passes,     \* completed passes of the while loop of this function
  firstOut,   \* history: output of each function after its first pass
  iters,      \* history: loop iterations run in the current pass
  writes,     \* history: stores to each index of output in the current pass
  modTaken,   \* history: indices whose store evaluated a % in the current pass
  oob,        \* history: indices outside [0, N) that were accessed
  family,     \* the benchmark custom_args is applied to
  ai,         \* custom_args: int i
  aj,         \* custom_args: position of j in {32, 128, 224}
  apc,        \* custom_args: "apply", "outer", "inner", "argpair", "shift", "done"
  registered  \* the argument pairs registered for each benchmark, in order

kvars == <<kernel, N, ceil, input, output, i, pc, passes, firstOut, iters,
           writes, modTaken, oob>>
avars == <<family, ai, aj, apc, registered>>
vars == <<kernel, N, ceil, input, output, i, pc, passes, firstOut, iters,
          writes, modTaken, oob, family, ai, aj, apc, registered>>

----------------------------------------------------------------------------
(* Bounds of the model *)

MaxN == 4
MaxVal == 2
MaxCeil == 4
MaxNegCeil == 1
MaxPasses == 2

(* Program constants *)

DistMin == 0
DistMax == 255
UnrollFactor == 4
LoExp == 4
HiExp == 10
ShiftBy == 2

\* the benchmarks, in the order BENCHMARK(...) registers them
Kernels == <<"baseMod", "unrollMod", "fastMod", "fastModHint", "fastModHintUnroll">>
KernelSet == {Kernels[k] : k \in 1..Len(Kernels)}
KernelIndex(k) == CHOOSE x \in 1..Len(Kernels) : Kernels[x] = k

\* for (int j : {32, 128, 224})
Ceilings == <<32, 128, 224>>

----------------------------------------------------------------------------
(* Arithmetic of the code *)

Abs(a) == IF a < 0 THEN -a ELSE a

\* a slip: one subtraction of the ceiling in place of the remainder
CRemSubtract(a, b) == a - b

\* a % b of C++ for b # 0: the quotient truncates toward zero, the remainder
\* has the sign of a
CRem(a, b) ==
  LET q == IF (a < 0) = (b < 0) THEN Abs(a) \div Abs(b) ELSE -(Abs(a) \div Abs(b))
  IN a - b * q

\* the values a build may store for x % c.  c = 0 is undefined behaviour: the
\* division traps (x86, see MayTrap) or the remainder is x - 0 * c, with the
\* quotient of 0 the divide instruction yields (AArch64, RISC-V).
RemOutcomes(x, c) == IF c = 0 THEN {x} ELSE {CRem(x, c)}

\* a comparison of C++ as the int it yields
Truth(b) == IF b THEN 1 ELSE 0

\* a slip: the hint taken for the value of the expression
BuiltinExpectReturnsHint(exp, c) == c

\* __builtin_expect(exp, c) evaluates to exp
BuiltinExpect(exp, c) == exp

\* x << n on values far below 2^31
ShiftLeft(x, n) == x * 2^n

----------------------------------------------------------------------------
(* The kernels *)

IsUnrolled(k) == k \in {"unrollMod", "fastModHintUnroll"}

\* slips: > in place of >= in the comparison of a guarded kernel
fastModGuardOffByOne(x, c) == x > c
fastModHintGuardOffByOne(x, c) == Truth(x > c) # 0
fastModHintUnrollGuardOffByOne(x, c) == Truth(x > c) # 0

\* whether the store of one element evaluates the %: always in baseMod and
\* unrollMod, under the comparison in the guarded kernels
baseModGuard(x, c) == TRUE
unrollModGuard(x, c) == TRUE
fastModGuard(x, c) == x >= c
fastModHintGuard(x, c) == BuiltinExpect(Truth(x >= c), 0) # 0
fastModHintUnrollGuard(x, c) == BuiltinExpect(Truth(x >= c), 0) # 0

Guard(k, x, c) ==
  CASE k = "baseMod" -> baseModGuard(x, c)
    [] k = "unrollMod" -> unrollModGuard(x, c)
    [] k = "fastMod" -> fastModGuard(x, c)
    [] k = "fastModHint" -> fastModHintGuard(x, c)
    [] k = "fastModHintUnroll" -> fastModHintUnrollGuard(x, c)

\* the values the right-hand side of one store may have
baseModElem(x, c) == RemOutcomes(x, c)
unrollModElem(x, c) == RemOutcomes(x, c)
fastModElem(x, c) == IF fastModGuard(x, c) THEN RemOutcomes(x, c) ELSE {x}
fastModHintElem(x, c) == IF fastModHintGuard(x, c) THEN RemOutcomes(x, c) ELSE {x}
fastModHintUnrollElem(x, c) ==
  IF fastModHintUnrollGuard(x, c) THEN RemOutcomes(x, c) ELSE {x}

Elem(k, x, c) ==
  CASE k = "baseMod" -> baseModElem(x, c)
    [] k = "unrollMod" -> unrollModElem(x, c)
    [] k = "fastMod" -> fastModElem(x, c)
    [] k = "fastModHint" -> fastModHintElem(x, c)
    [] k = "fastModHintUnroll" -> fastModHintUnrollElem(x, c)

\* a slip: the fourth store of the unrolled body left out
UnrollLanesThree(idx) == {idx, idx + 1, idx + 2}

\* the indices one iteration of the for loop stores to
UnrollLanes(idx) == {idx, idx + 1, idx + 2, idx + 3}
Lanes(k, idx) == IF IsUnrolled(k) THEN UnrollLanes(idx) ELSE {idx}

\* i++ or i += 4
Step(k) == IF IsUnrolled(k) THEN UnrollFactor ELSE 1

\* a slip: += in place of =
StoreElemAccumulate(old, v) == old + v

\* output[j] = v
StoreElem(old, v) == v

Zeros(n) == [j \in 0..(n - 1) |-> 0]
Vec(seq) == [j \in 0..(Len(seq) - 1) |-> seq[j + 1]]

\* the output vectors one iteration at idx may leave (the stores to [0, n))
IterOutputs(k, in, out, idx, n, c) ==
  LET inl == {j \in Lanes(k, idx) : j < n}
      cands == {f \in [inl -> UNION {Elem(k, in[j], c) : j \in inl}] :
                  \A j \in inl : f[j] \in Elem(k, in[j], c)}
  IN {[j \in 0..(n - 1) |-> IF j \in inl THEN StoreElem(out[j], f[j]) ELSE out[j]] :
        f \in cands}

\* the output vectors the for loop may leave when entered at idx
RECURSIVE PassFrom(_, _, _, _, _, _)
PassFrom(k, in, out, idx, n, c) ==
  IF idx >= n THEN {out}
  ELSE UNION {PassFrom(k, in, o, idx + Step(k), n, c) :
                o \in IterOutputs(k, in, out, idx, n, c)}

\* one pass of the while loop of kernel k over in, into a fresh output
KernelPass(k, in, n, c) == PassFrom(k, in, Zeros(n), 0, n, c)

\* undefined behaviour that may end the process: an access outside the
\* vectors, or a division by zero
MayTrap(k, idx) ==
  \/ \E j \in Lanes(k, idx) : j >= N
  \/ ceil = 0 /\ \E j \in Lanes(k, idx) : j < N /\ Guard(k, input[j], ceil)

----------------------------------------------------------------------------
(* The benchmark functions *)

\* the runs of the harness: s.range(0), s.range(1) and the draw of dist(rng)
BoundedRuns ==
  {<<n, c, in>> : n \in 0..MaxN, c \in (0 - MaxNegCeil)..MaxCeil,
                  in \in UNION {[0..(m - 1) -> DistMin..MaxVal] : m \in 0..MaxN}}
ScenarioRuns ==
  {<<4, 32, Vec(<<5, 40, 7, 200>>)>>,
   <<4, 4, Vec(<<0, 1, 2, 3>>)>>,
   <<8, 32, Vec(<<5, 40, 7, 200, 31, 32, 33, 255>>)>>,
   <<12, 128, Vec(<<0, 127, 128, 129, 255, 1, 64, 200, 128, 3, 254, 130>>)>>,
   <<6, 32, Vec(<<5, 40, 7, 200, 31, 32>>)>>,
   <<4, 0 - 32, Vec(<<5, 40, 7, 200>>)>>}
Runs == {r \in BoundedRuns : DOMAIN r[3] = 0..(r[1] - 1)} \cup ScenarioRuns

ArgsIdle ==
  /\ family = Kernels[1]
  /\ ai = 0
  /\ aj = 1
  /\ apc = "idle"
  /\ registered = [k \in KernelSet |-> <<>>]

Init ==
  /\ kernel = Kernels[1]
  /\ \E r \in Runs : N = r[1] /\ ceil = r[2] /\ input = r[3]
  /\ output = Zeros(N)
  /\ i = 0
  /\ pc = "keep"
  /\ passes = 0
  /\ firstOut = [k \in KernelSet |-> Zeros(N)]
  /\ iters = 0
  /\ writes = Zeros(N)
  /\ modTaken = {}
  /\ oob = {}
  /\ ArgsIdle

\* s.KeepRunning() returns true: the for loop starts
KeepRunningTrue ==
  /\ pc = "keep"
  /\ passes < MaxPasses
  /\ pc' = "loop"
  /\ i' = 0
  /\ iters' = 0
  /\ writes' = Zeros(N)
  /\ modTaken' = {}
  /\ UNCHANGED <<kernel, N, ceil, input, output, passes, firstOut, oob>>
  /\ UNCHANGED avars

\* s.KeepRunning() returns false, after one pass at least: the function returns
KeepRunningFalse ==
  /\ pc = "keep"
  /\ passes >= 1
  /\ pc' = "ret"
  /\ UNCHANGED <<kernel, N, ceil, input, output, i, passes, firstOut, iters,
                 writes, modTaken, oob>>
  /\ UNCHANGED avars

\* one iteration of the for loop of the running kernel: its stores, or the
\* end of the process where the iteration has undefined behaviour that traps
LoopIter ==
  /\ pc = "loop"
  /\ i < N
  /\ \/ /\ output' \in IterOutputs(kernel, input, output, i, N, ceil)
        /\ i' = i + Step(kernel)
        /\ iters' = iters + 1
        /\ writes' = [j \in 0..(N - 1) |->
                        IF j \in Lanes(kernel, i) THEN writes[j] + 1 ELSE writes[j]]
        /\ modTaken' = modTaken \cup
                         {j \in Lanes(kernel, i) :
                            j < N /\ Guard(kernel, input[j], ceil)}
        /\ oob' = oob \cup {j \in Lanes(kernel, i) : j >= N}
        /\ UNCHANGED <<kernel, N, ceil, input, pc, passes, firstOut>>
     \/ /\ MayTrap(kernel, i)
        /\ pc' = "fault"
        /\ UNCHANGED <<kernel, N, ceil, input, output, i, passes, firstOut,
                       iters, writes, modTaken, oob>>
  /\ UNCHANGED avars

baseMod ==
  /\ kernel = "baseMod"
  /\ LoopIter

unrollMod ==
  /\ kernel = "unrollMod"
  /\ LoopIter

fastMod ==
  /\ kernel = "fastMod"
  /\ LoopIter

fastModHint ==
  /\ kernel = "fastModHint"
  /\ LoopIter

fastModHintUnroll ==
  /\ kernel = "fastModHintUnroll"
  /\ LoopIter

\* the for loop ends: back to s.KeepRunning()
LoopExit ==
  /\ pc = "loop"
  /\ i >= N
  /\ pc' = "keep"
  /\ passes' = passes + 1
  /\ firstOut' = IF passes = 0 THEN [firstOut EXCEPT ![kernel] = output]
                 ELSE firstOut
  /\ UNCHANGED <<kernel, N, ceil, input, output, i, iters, writes, modTaken, oob>>
  /\ UNCHANGED avars

\* the next registered benchmark function starts: fresh vectors, the same
\* arguments and the same draw
NextBenchmark ==
  /\ pc = "ret"
  /\ KernelIndex(kernel) < Len(Kernels)
  /\ kernel' = Kernels[KernelIndex(kernel) + 1]
  /\ output' = Zeros(N)
  /\ i' = 0
  /\ pc' = "keep"
  /\ passes' = 0
  /\ iters' = 0
  /\ writes' = Zeros(N)
  /\ modTaken' = {}
  /\ oob' = {}
  /\ UNCHANGED <<N, ceil, input, firstOut>>
  /\ UNCHANGED avars

Next ==
  \/ KeepRunningTrue
  \/ KeepRunningFalse
  \/ baseMod
  \/ unrollMod
  \/ fastMod
  \/ fastModHint
  \/ fastModHintUnroll
  \/ LoopExit
  \/ NextBenchmark

Spec == Init /\ [][Next]_vars

----------------------------------------------------------------------------
(* custom_args, applied to each benchmark by BENCHMARK(k)->Apply(custom_args) *)

KernelsIdle ==
  /\ kernel = Kernels[1]
  /\ N = 0
  /\ ceil = 0
  /\ input = Zeros(0)
  /\ output = Zeros(0)
  /\ i = 0
  /\ pc = "idle"
  /\ passes = 0
  /\ firstOut = [k \in KernelSet |-> Zeros(0)]
  /\ iters = 0
  /\ writes = Zeros(0)
  /\ modTaken = {}
  /\ oob = {}

InitArgs ==
  /\ family = Kernels[1]
  /\ ai = 0
  /\ aj = 1
  /\ apc = "apply"
  /\ registered = [k \in KernelSet |-> <<>>]
  /\ KernelsIdle

\* the i <= 1 << 10 of the outer loop
OuterCond(x) == x <= ShiftLeft(1, HiExp)

\* a slip: i <<= 1
OuterShiftByOne(x) == ShiftLeft(x, 1)

\* the i <<= 2 of the outer loop
OuterShift(x) == ShiftLeft(x, ShiftBy)

\* b->ArgPair(x, y)
ArgPair(list, x, y) == Append(list, <<x, y>>)

\* Apply calls custom_args: int i = 1 << 4
Apply ==
  /\ apc = "apply"
  /\ ai' = ShiftLeft(1, LoExp)
  /\ apc' = "outer"
  /\ UNCHANGED <<family, aj, registered>>
  /\ UNCHANGED kvars

\* the outer loop goes on: the range-for over {32, 128, 224} starts
OuterEnter ==
  /\ apc = "outer"
  /\ OuterCond(ai)
  /\ aj' = 1
  /\ apc' = "inner"
  /\ UNCHANGED <<family, ai, registered>>
  /\ UNCHANGED kvars

\* the outer loop ends and custom_args returns: the next BENCHMARK, or main
OuterExit ==
  /\ apc = "outer"
  /\ ~OuterCond(ai)
  /\ IF KernelIndex(family) < Len(Kernels)
     THEN /\ family' = Kernels[KernelIndex(family) + 1]
          /\ apc' = "apply"
     ELSE /\ family' = family
          /\ apc' = "done"
  /\ UNCHANGED <<ai, aj, registered>>
  /\ UNCHANGED kvars

\* the range-for has another j
InnerEnter ==
  /\ apc = "inner"
  /\ aj <= Len(Ceilings)
  /\ apc' = "argpair"
  /\ UNCHANGED <<family, ai, aj, registered>>
  /\ UNCHANGED kvars

\* the range-for is over
InnerExit ==
  /\ apc = "inner"
  /\ aj > Len(Ceilings)
  /\ apc' = "shift"
  /\ UNCHANGED <<family, ai, aj, registered>>
  /\ UNCHANGED kvars

\* b = b->ArgPair(i, j), and the range-for advances
CallArgPair ==
  /\ apc = "argpair"
  /\ registered' = [registered EXCEPT
                      ![family] = ArgPair(registered[family], ai, Ceilings[aj])]
  /\ aj' = aj + 1
  /\ apc' = "inner"
  /\ UNCHANGED <<family, ai>>
  /\ UNCHANGED kvars

\* i <<= 2
Shift ==
  /\ apc = "shift"
  /\ ai' = OuterShift(ai)
  /\ apc' = "outer"
  /\ UNCHANGED <<family, aj, registered>>
  /\ UNCHANGED kvars

NextArgs ==
  \/ Apply
  \/ OuterEnter
  \/ OuterExit
  \/ InnerEnter
  \/ InnerExit
  \/ CallArgPair
  \/ Shift

\* the registration is straight-line code of one thread: it keeps running
SpecArgs == InitArgs /\ [][NextArgs]_vars /\ WF_vars(NextArgs)

----------------------------------------------------------------------------
(* Properties *)

\* output holds the result of a complete pass of the running kernel
PassDone == pc \in {"keep", "ret"} /\ passes >= 1

\* kernel k has completed its first pass
Completed(k) ==
  \/ KernelIndex(k) < KernelIndex(kernel)
  \/ k = kernel /\ passes >= 1

\* the unrolled kernels need N to be a multiple of 4
ValidN(k) == IsUnrolled(k) => N % UnrollFactor = 0

IsGuarded(k) == k \in {"fastMod", "fastModHint", "fastModHintUnroll"}

\* C1: with N a multiple of 4, every element in [0, 255] and C > 0, the
\* five kernels leave the same output after one pass, index by index.
C1_KernelsAgree ==
  (ceil > 0 /\ N % UnrollFactor = 0 /\ \A j \in 0..(N - 1) : input[j] \in DistMin..DistMax)
    => \A k1, k2 \in KernelSet :
         (Completed(k1) /\ Completed(k2)) => firstOut[k1] = firstOut[k2]

\* all five kernels have run on an input that takes both branches of the guard
C1_Witness ==
  /\ kernel = "fastModHintUnroll"
  /\ PassDone
  /\ ceil > 0
  /\ N = 4
  /\ \E j \in 0..(N - 1) : input[j] >= ceil
  /\ \E j \in 0..(N - 1) : input[j] < ceil

\* C2: after a complete pass of any kernel (C > 0, N a multiple of 4 for the
\* unrolled kernels) the output has length N and output[i] = input[i] mod C
\* for every i; [5, 40, 7, 200] with C = 32 gives [5, 8, 7, 8].
C2_OutputIsMod ==
  (PassDone /\ ceil > 0 /\ ValidN(kernel))
    => /\ DOMAIN output = 0..(N - 1)
       /\ \A j \in 0..(N - 1) : output[j] = input[j] % ceil
       /\ (input = Vec(<<5, 40, 7, 200>>) /\ ceil = 32)
            => output = Vec(<<5, 8, 7, 8>>)

\* the scenario of the specification has been computed by an unrolled kernel
C2_Witness ==
  /\ kernel = "fastModHintUnroll"
  /\ PassDone
  /\ input = Vec(<<5, 40, 7, 200>>)
  /\ ceil = 32
  /\ output = Vec(<<5, 8, 7, 8>>)

\* C3: after a complete pass of any kernel every output element is in
\* [0, C), for C > 0.
C3_OutputInRange ==
  (PassDone /\ ceil > 0 /\ ValidN(kernel))
    => \A j \in 0..(N - 1) : 0 <= output[j] /\ output[j] < ceil

\* a hinted pass has reduced an element equal to the ceiling and one above it
C3_Witness ==
  /\ kernel = "fastModHint"
  /\ PassDone
  /\ ceil > 0
  /\ \E j \in 0..(N - 1) : input[j] = ceil
  /\ \E j \in 0..(N - 1) : input[j] > ceil

\* C4: every element below the ceiling is stored unchanged by every kernel,
\* and a guarded kernel evaluates the % exactly at the indices with
\* input[i] >= C.
C4_FastPathIdentity ==
  (PassDone /\ ceil > 0 /\ ValidN(kernel))
    => /\ \A j \in 0..(N - 1) : input[j] < ceil => output[j] = input[j]
       /\ IsGuarded(kernel) => modTaken = {j \in 0..(N - 1) : input[j] >= ceil}

\* a guarded pass has taken the % at some indices and skipped it at others
C4_Witness ==
  /\ IsGuarded(kernel)
  /\ PassDone
  /\ ceil > 0
  /\ modTaken # {}
  /\ modTaken # 0..(N - 1)

\* C5: a pass of a kernel over its own output, with the same ceiling C > 0,
\* returns that output unchanged.
C5_Idempotent ==
  (PassDone /\ ceil > 0 /\ ValidN(kernel))
    => KernelPass(kernel, output, N, ceil) = {output}

\* a pass has changed its input, and its output is fed back
C5_Witness ==
  /\ PassDone
  /\ ceil > 0
  /\ ValidN(kernel)
  /\ output # input
  /\ output # Zeros(N)
  /\ KernelPass(kernel, output, N, ceil) = {output}

\* C6: an unrolled kernel called with N that is no multiple of 4 (and a valid
\* ceiling) fails fast: it accesses no index outside [0, N).
C6_UnrolledRejectsBadN ==
  (IsUnrolled(kernel) /\ N % UnrollFactor # 0 /\ ceil > 0) => oob = {}

\* C7: a kernel called with a ceiling C <= 0 is rejected before any % is
\* computed: no element of output is written.
C7_RejectsNonPositiveCeil ==
  ceil <= 0 => (modTaken = {} /\ \A j \in 0..(N - 1) : writes[j] = 0)

\* the grid N in {16, 64, 256, 1024} x C in {32, 128, 224}, N outermost
Grid ==
  <<<<16, 32>>, <<16, 128>>, <<16, 224>>,
    <<64, 32>>, <<64, 128>>, <<64, 224>>,
    <<256, 32>>, <<256, 128>>, <<256, 224>>,
    <<1024, 32>>, <<1024, 128>>, <<1024, 224>>>>

IsPrefix(a, b) == Len(a) <= Len(b) /\ \A x \in 1..Len(a) : a[x] = b[x]

ArgsSafe ==
  /\ \A k \in KernelSet :
       /\ IsPrefix(registered[k], Grid)
       /\ \A x \in 1..Len(registered[k]) :
            /\ registered[k][x][1] > 0
            /\ registered[k][x][1] % UnrollFactor = 0
            /\ registered[k][x][2] > 0
            /\ registered[k][x][2] <= DistMax
  /\ \A k \in KernelSet :
       (apc = "done" \/ KernelIndex(k) < KernelIndex(family))
         => registered[k] = Grid

\* C8: custom_args registers exactly the 12 pairs of the grid, N outermost,
\* for each benchmark, and then ends; every registered pair has N a positive
\* multiple of 4 and 0 < C <= 255.
C8_GridRegistered == []ArgsSafe /\ <>(apc = "done")

\* the registration is over, with 12 pairs for the last benchmark
C8_Witness ==
  /\ apc = "done"
  /\ Len(registered["fastModHintUnroll"]) = 12

\* C9: for N a positive multiple of 4 a pass of an unrolled kernel runs N/4
\* iterations, stores to every index of [0, N) once and accesses no index
\* >= N; i advances by 4 up to N; [0, 1, 2, 3] with C = 4 takes one iteration
\* and gives [0, 1, 2, 3].
C9_UnrolledCoversOnce ==
  (IsUnrolled(kernel) /\ N > 0 /\ N % UnrollFactor = 0)
    => /\ oob = {}
       /\ pc = "loop" =>
            /\ i = UnrollFactor * iters
            /\ i <= N
            /\ \A j \in 0..(N - 1) : writes[j] = IF j < i THEN 1 ELSE 0
       /\ PassDone =>
            /\ iters = N \div UnrollFactor
            /\ \A j \in 0..(N - 1) : writes[j] = 1
       /\ (PassDone /\ input = Vec(<<0, 1, 2, 3>>) /\ ceil = 4) =>
            /\ iters = 1
            /\ output = Vec(<<0, 1, 2, 3>>)

\* an unrolled pass over two groups of four is complete
C9_Witness ==
  /\ kernel = "fastModHintUnroll"
  /\ PassDone
  /\ N = 8
  /\ iters = 2

\* C10: no step changes input, ceil or N, and whenever a pass ends (C > 0, N
\* valid for the kernel) the output is the one the first pass left, which
\* is the pass over a fresh output.
C10_PassesIndependent ==
  [][/\ input' = input
     /\ ceil' = ceil
     /\ N' = N
     /\ (pc' = "keep" /\ passes' >= 1 /\ ceil' > 0 /\ ValidN(kernel)')
          => /\ output' = firstOut'[kernel']
             /\ KernelPass(kernel', input', N', ceil') = {output'}]_vars

\* a second pass has ended on an output that is not all zeros
C10_Witness ==
  /\ pc = "keep"
  /\ passes = 2
  /\ ceil > 0
  /\ ValidN(kernel)
  /\ output # Zeros(N)

====
